---- MODULE Spec2Model ----
(***************************************************************************)
(* ShadowMappingPass (src/src/app/render/passes/ShadowMappingPass.ts):     *)
(* the cascaded shadow-map pass of the renderer.  The model follows the    *)
(* constructor, the 'shadows' settings handler statement by statement, and *)
(* render() with its four category helpers loop iteration by loop          *)
(* iteration.  Every renderer call a helper makes is appended to a         *)
(* per-frame log.                                                          *)
(***************************************************************************)
EXTENDS Integers, Sequences, FiniteSets

VARIABLES
    phase,           \* "constructing" until the constructor returns, then "ready"
    handlers,        \* how many 'shadows' handlers the settings object holds
    hpc,             \* position inside the settings handler ("idle" outside it)
    statusValue,     \* the argument of the running / last handler invocation
    csm,             \* sceneSystem.objects.csm: cascades, resolution, far
    cascadeCameras,  \* csm.cascadeCameras
    descriptor,      \* getResource('ShadowMaps').descriptor
    hlog,            \* what the running / last handler invocation did, in order
    runs,            \* handler invocations since the last notification began
    tiles,           \* sceneSystem.objects.tiles
    instancedObjects,\* sceneSystem.objects.instancedObjects, in insertion order
    instancedAircraft,\* sceneSystem.objects.instancedAircraft
    rpc,             \* position inside render() ("idle" outside it)
    i,               \* render()'s cascade loop variable
    k,               \* the running helper's item loop position (1-based)
    slice,           \* getPhysicalResource('ShadowMaps').depthAttachment.slice
    boundMaterial,   \* the material of the renderer's last useMaterial
    cpu,             \* each material's uniform values as written
    gpu,             \* each material's uniform values as last flushed
    log,             \* the renderer calls of the running / last render()
    frameCameras,    \* csm.cascadeCameras.length when that render() was called
    sizeArgs,        \* the arguments of setSize, when it was the last call made
    previous,        \* what a repeated handler call found, when it was the last call
    masks,           \* the WaterMask objects, in the order of their construction
    updates,         \* how often updateMesh was called on each of them
    created,         \* the renderer's createMesh calls, in order
    answer           \* the last isMeshReady call and what it returned

vars == <<phase, handlers, hpc, statusValue, csm, cascadeCameras,
          descriptor, hlog, runs, tiles, instancedObjects, instancedAircraft,
          rpc, i, k, slice, boundMaterial, cpu, gpu, log, frameCameras,
          sizeArgs, previous, masks, updates, created, answer>>

settingsVars == <<handlers, hpc, statusValue, csm, cascadeCameras,
                  descriptor, hlog, runs>>
sceneVars == <<tiles, instancedObjects, instancedAircraft>>
frameVars == <<rpc, i, k, slice, boundMaterial, cpu, gpu, log, frameCameras>>
callVars == <<sizeArgs, previous>>
maskVars == <<masks, updates, created, answer>>

----------------------------------------------------------------------------
(* Bounds and input sets *)

\* The most items (tiles + instanced groups + aircraft) a scene holds.
MaxItems == 2

\* The values the 'shadows' setting is notified with: the three tiers and one
\* value that is none of them.
StatusValues == {"low", "medium", "high", "ultra"}

\* The CSM object's configuration before the pass is constructed.
PriorConfigs ==
    { [cascades |-> 4, resolution |-> 1024, far |-> 2000],
      [cascades |-> 1, resolution |-> 4096, far |-> 4000] }

\* The ShadowMaps descriptor before the pass is constructed.
PriorDescriptors ==
    { [width |-> 1, height |-> 1, depth |-> 1],
      [width |-> 512, height |-> 256, depth |-> 2] }

\* The cascade indices whose camera frustum a mesh intersects.
FrustumChoices == { {0}, {1, 2} }

\* instanceCount of an aircraft mesh.
InstanceCounts == {0, 2}

\* The keys of the instanced-object registry.
Names == {"tree", "rock", ""}

----------------------------------------------------------------------------
(* The settings handler, lines 50-76 *)

\* if / else-if / else of the handler, lines 54-66.
TierConfig_Mut(sv) ==
    IF sv = "low" THEN [cascades |-> 1, resolution |-> 2048, far |-> 3000]
    ELSE IF sv = "medium" THEN [cascades |-> 3, resolution |-> 4096, far |-> 4000]
    ELSE [cascades |-> 3, resolution |-> 4096, far |-> 5000]

TierConfig_Default_Mut(sv) ==
    IF sv = "low" THEN [cascades |-> 1, resolution |-> 2048, far |-> 3000]
    ELSE IF sv = "medium" THEN [cascades |-> 3, resolution |-> 2048, far |-> 4000]
    ELSE IF sv = "high" THEN [cascades |-> 3, resolution |-> 4096, far |-> 5000]
    ELSE [cascades |-> 1, resolution |-> 2048, far |-> 3000]

TierConfig(sv) ==
    IF sv = "low" THEN [cascades |-> 1, resolution |-> 2048, far |-> 3000]
    ELSE IF sv = "medium" THEN [cascades |-> 3, resolution |-> 2048, far |-> 4000]
    ELSE [cascades |-> 3, resolution |-> 4096, far |-> 5000]

\* The third argument of settings.onChange, line 70.
FireImmediately_Mut == FALSE

FireImmediately == TRUE

\* The statements of the handler in program order: the three assignments of the
\* taken branch, then lines 68 and 69.
HandlerOrder_Mut ==
    <<"cascades", "resolution", "far", "updateShadowMapDescriptor", "updateCascades">>

HandlerOrder_First_Mut ==
    <<"updateShadowMapDescriptor", "cascades", "resolution", "far", "updateCascades">>

HandlerOrder ==
    <<"cascades", "resolution", "far", "updateCascades", "updateShadowMapDescriptor">>

\* The arguments of descriptor.setSize, line 75.
DescriptorSize_Mut(c) ==
    [width |-> c.resolution, height |-> c.resolution, depth |-> 1]

DescriptorSize(c) ==
    [width |-> c.resolution, height |-> c.resolution, depth |-> c.cascades]

\* csm.updateCascades(): one camera per cascade, built for the current count
\* and far distance.
UpdateCascades(c) ==
    [n \in 1..c.cascades |-> [index |-> n - 1, cascades |-> c.cascades, far |-> c.far]]

\* The position after statement number n of the handler (0: on entry).
AfterStatement(n) ==
    IF n < Len(HandlerOrder) THEN HandlerOrder[n + 1] ELSE "idle"

StatementIndex(s) == CHOOSE n \in 1..Len(HandlerOrder) : HandlerOrder[n] = s

\* No setSize call, or another call into the pass since the last one.
NoSize == [width |-> -1, height |-> -1]

\* The last call into the pass was not a repeated handler call.
NoPrevious ==
    [statusValue |-> "none",
     csm |-> [cascades |-> 0, resolution |-> 0, far |-> 0],
     cascadeCameras |-> <<>>,
     descriptor |-> [width |-> 0, height |-> 0, depth |-> 0]]

\* The settings object calls the handler with the new value.  When that is
\* the value of the application before, what that application left is kept
\* for comparison.
InvokeHandler(sv) ==
    /\ statusValue' = sv
    /\ hpc' = AfterStatement(0)
    /\ hlog' = <<>>
    /\ runs' = 1
    /\ previous' = IF sv = statusValue
                   THEN [statusValue |-> statusValue, csm |-> csm,
                         cascadeCameras |-> cascadeCameras, descriptor |-> descriptor]
                   ELSE NoPrevious
    /\ sizeArgs' = NoSize

\* Statement s of the handler is done.  After the last one the handler
\* returns: during construction through onChange and listenToSettings to the
\* constructor, which returns too (lines 47-48).
HandlerReturns(s) ==
    /\ hpc' = AfterStatement(StatementIndex(s))
    /\ IF hpc' = "idle" /\ phase = "constructing"
       THEN phase' = "ready" ELSE phase' = phase

\* csm.cascades = ... (lines 55, 59, 63)
WriteCascades ==
    /\ hpc = "cascades"
    /\ csm' = [csm EXCEPT !.cascades = TierConfig(statusValue).cascades]
    /\ hlog' = Append(hlog, "cascades")
    /\ HandlerReturns("cascades")
    /\ UNCHANGED <<handlers, statusValue, cascadeCameras, descriptor, runs>>
    /\ UNCHANGED <<sceneVars, frameVars, callVars, maskVars>>

\* csm.resolution = ... (lines 56, 60, 64)
WriteResolution ==
    /\ hpc = "resolution"
    /\ csm' = [csm EXCEPT !.resolution = TierConfig(statusValue).resolution]
    /\ hlog' = Append(hlog, "resolution")
    /\ HandlerReturns("resolution")
    /\ UNCHANGED <<handlers, statusValue, cascadeCameras, descriptor, runs>>
    /\ UNCHANGED <<sceneVars, frameVars, callVars, maskVars>>

\* csm.far = ... (lines 57, 61, 65)
WriteFar ==
    /\ hpc = "far"
    /\ csm' = [csm EXCEPT !.far = TierConfig(statusValue).far]
    /\ hlog' = Append(hlog, "far")
    /\ HandlerReturns("far")
    /\ UNCHANGED <<handlers, statusValue, cascadeCameras, descriptor, runs>>
    /\ UNCHANGED <<sceneVars, frameVars, callVars, maskVars>>

\* csm.updateCascades() (line 68)
CallUpdateCascades ==
    /\ hpc = "updateCascades"
    /\ cascadeCameras' = UpdateCascades(csm)
    /\ hlog' = Append(hlog, "updateCascades")
    /\ HandlerReturns("updateCascades")
    /\ UNCHANGED <<handlers, statusValue, csm, descriptor, runs>>
    /\ UNCHANGED <<sceneVars, frameVars, callVars, maskVars>>

\* this.updateShadowMapDescriptor() (lines 69, 73-76)
UpdateShadowMapDescriptor ==
    /\ hpc = "updateShadowMapDescriptor"
    /\ descriptor' = DescriptorSize(csm)
    /\ hlog' = Append(hlog, "setSize")
    /\ HandlerReturns("updateShadowMapDescriptor")
    /\ UNCHANGED <<handlers, statusValue, csm, cascadeCameras, runs>>
    /\ UNCHANGED <<sceneVars, frameVars, callVars, maskVars>>

\* The constructor, lines 32-48: listenToSettings() registers the handler and,
\* with fireImmediately, the settings object calls it at once with the
\* current value; without it the constructor returns with no call made.
Constructor ==
    /\ phase = "constructing"
    /\ handlers = 0
    /\ handlers' = 1
    /\ IF FireImmediately
       THEN /\ \E sv \in StatusValues : InvokeHandler(sv)
            /\ phase' = phase
       ELSE /\ phase' = "ready"
            /\ runs' = 0
            /\ UNCHANGED <<hpc, statusValue, hlog, callVars>>
    /\ UNCHANGED <<csm, cascadeCameras, descriptor>>
    /\ UNCHANGED <<sceneVars, frameVars, maskVars>>

\* The user changes the 'shadows' setting between two frames: the settings
\* object calls the registered handler with the new value.
SettingsChange ==
    /\ phase = "ready"
    /\ hpc = "idle"
    /\ rpc = "idle"
    /\ handlers > 0
    /\ \E sv \in StatusValues : InvokeHandler(sv)
    /\ UNCHANGED <<phase, handlers, csm, cascadeCameras, descriptor>>
    /\ UNCHANGED <<sceneVars, frameVars, maskVars>>

----------------------------------------------------------------------------
(* The scene, the materials and the renderer *)

NoMesh == [present |-> FALSE, frustum |-> {}, instanceCount |-> 0]

\* A tile mesh that exists.
Meshes == { [present |-> TRUE, frustum |-> f, instanceCount |-> 1] : f \in FrustumChoices }

\* The mesh of an instanced group holds the instances of the whole scene; the
\* helper never asks for its frustum, and here it lies outside camera 0's.
InstancedMeshes == { [present |-> TRUE, frustum |-> {1, 2}, instanceCount |-> 1] }

\* An aircraft mesh that exists; its frustum is never asked for either.
AircraftMeshes ==
    { [present |-> TRUE, frustum |-> {1, 2}, instanceCount |-> n] : n \in InstanceCounts }

\* A tile's two meshes cover the same ground: when both exist they intersect
\* the same cameras.
Tiles ==
    { t \in [extrudedMesh : Meshes \cup {NoMesh}, huggingMesh : Meshes \cup {NoMesh}] :
        (t.extrudedMesh.present /\ t.huggingMesh.present)
            => t.extrudedMesh.frustum = t.huggingMesh.frustum }
InstancedObjects == [name : Names, mesh : InstancedMeshes \cup {NoMesh}]
Aircraft == [mesh : AircraftMeshes \cup {NoMesh}]

SeqsOf(S, n) == [1..n -> S]

\* A Map holds each key once.
DistinctNames(reg) ==
    \A a, b \in 1..Len(reg) : a # b => reg[a].name # reg[b].name

Materials == {"building", "hugging", "tree", "instance", "aircraft"}

NoCamera == [index |-> -1, cascades |-> 0, far |-> 0]
NoItem == [cat |-> "none", idx |-> 0]
NoRing == [size |-> 0, offset |-> <<0, 0, 0, 0>>, levelId |-> 0, segmentCount |-> 0]

\* The uniforms of a freshly created material.
NoUniforms ==
    [projectionMatrix |-> NoCamera,
     modelViewMatrix  |-> [camera |-> NoCamera, item |-> NoItem],
     ring             |-> NoRing,
     tRingHeight      |-> "none"]

\* The uniforms of each material's blocks, as the helpers name them.
BlockUniforms_Mut(mat, block) ==
    IF mat \in {"tree", "instance", "aircraft"} /\ block = "MainBlock"
        THEN {"projectionMatrix", "modelViewMatrix"}
    ELSE IF mat \in {"building", "hugging"} /\ block = "PerMaterial"
        THEN {"projectionMatrix", "ring"}
    ELSE IF mat \in {"building", "hugging"} /\ block = "PerMesh"
        THEN {"modelViewMatrix"}
    ELSE {}

BlockUniforms(mat, block) ==
    IF mat \in {"tree", "instance", "aircraft"} /\ block = "MainBlock"
        THEN {"projectionMatrix", "modelViewMatrix"}
    ELSE IF mat \in {"building", "hugging"} /\ block = "PerMaterial"
        THEN {"projectionMatrix"}
    ELSE IF mat = "building" /\ block = "PerMesh"
        THEN {"modelViewMatrix"}
    ELSE IF mat = "hugging" /\ block = "PerMesh"
        THEN {"modelViewMatrix", "ring"}
    ELSE {}

\* material.updateUniformBlock(block): the block's written values reach the GPU.
UpdateUniformBlock(c, g, mat, block) ==
    [g EXCEPT ![mat] =
        [u \in DOMAIN g[mat] |->
            IF u \in BlockUniforms(mat, block) THEN c[mat][u] ELSE g[mat][u]]]

\* Mat4.multiply(shadowCamera.matrixWorldInverse, item.matrixWorld)
MvMatrix(camera, cat, idx) == [camera |-> camera, item |-> [cat |-> cat, idx |-> idx]]

\* terrain.getTileParams(tile) as the hugging-mesh helper uses it (lines
\* 117-127): ring0.size, the four offsets, levelId and ring0.segmentCount * 2.
TileRing(idx) ==
    [size |-> 100 * idx, offset |-> <<idx, idx + 1, idx + 2, idx + 3>>,
     levelId |-> idx - 1, segmentCount |-> (8 * idx) * 2]

\* mesh.inCameraFrustum(shadowCamera)
InCameraFrustum(mesh, camera) == camera.index \in mesh.frustum

\* One renderer call, as the log keeps it.
Ev(op, cat, cam, item, mat, block, name) ==
    [op |-> op, cat |-> cat, cam |-> cam, item |-> item, mat |-> mat,
     block |-> block, name |-> name]

EvCall(cat, cam)          == Ev("call", cat, cam, 0, "none", "none", "none")
EvUse(cat, cam, item, mat) == Ev("useMaterial", cat, cam, item, mat, "none", "none")
EvWrite(cat, cam, item, mat, block, name) == Ev("write", cat, cam, item, mat, block, name)
EvFlush(cat, cam, item, mat, block) == Ev("flush", cat, cam, item, mat, block, "none")
EvCull(cat, cam, item, ok) ==
    Ev(IF ok THEN "inFrustum" ELSE "outOfFrustum", cat, cam, item, "none", "none", "none")
EvDraw(cat, cam, item, mat) == Ev("draw", cat, cam, item, mat, "none", "none")
EvThrow(cat, cam, item)   == Ev("throw", cat, cam, item, "none", "none", "none")

----------------------------------------------------------------------------
(* render() and its helpers, lines 78-188 *)

\* The threshold of line 180.
CategoryThreshold == 2

\* if (i < 2), line 180.
IncludeSmallObjects(idx) == idx < CategoryThreshold

\* name === 'tree' ? this.treeMaterial : this.instanceMaterial, line 137.
InstanceMaterial_Mut(name) == IF name \in {"tree", ""} THEN "tree" ELSE "instance"

InstanceMaterial(name) == IF name = "tree" THEN "tree" ELSE "instance"

\* aircraft.mesh && aircraft.mesh.instanceCount > 0, line 155.
AircraftDrawable_Mut(a) == a.mesh.present

AircraftDrawable(a) == a.mesh.present /\ a.mesh.instanceCount > 0

\* The negation of the skip condition of lines 87 and 114.
TileMeshDrawable_Mut(mesh, camera) == mesh.present

TileMeshDrawable(mesh, camera) == mesh.present /\ InCameraFrustum(mesh, camera)

Camera == cascadeCameras[i + 1]

\* The slice that line 176 selects for cascade idx.
SliceFor_Mut(idx) == 0

SliceFor(idx) == idx

\* render() is called for a frame, lines 169-173 (let i = 0).
RenderCall ==
    /\ phase = "ready"
    /\ hpc = "idle"
    /\ rpc = "idle"
    /\ rpc' = "loop"
    /\ i' = 0
    /\ k' = 0
    /\ log' = <<>>
    /\ frameCameras' = Len(cascadeCameras)
    /\ sizeArgs' = NoSize
    /\ previous' = NoPrevious
    /\ UNCHANGED <<slice, boundMaterial, cpu, gpu>>
    /\ UNCHANGED <<phase, settingsVars, sceneVars, maskVars>>

\* The loop condition holds: lines 174-186 up to the first helper call.
CascadeBegin ==
    /\ rpc = "loop"
    /\ i < Len(cascadeCameras)
    /\ slice' = SliceFor(i)
    /\ k' = 1
    /\ LET begin == <<Ev("slice", "none", SliceFor(i), 0, "none", "none", "none"),
                      Ev("beginRenderPass", "none", i, 0, "none", "none", "none")>>
       IN IF IncludeSmallObjects(i)
          THEN /\ rpc' = "instances"
               /\ log' = log \o begin \o <<EvCall("instances", i)>>
          ELSE /\ rpc' = "buildingsHead"
               /\ log' = log \o begin \o <<EvCall("buildings", i)>>
    /\ UNCHANGED <<i, boundMaterial, cpu, gpu>>
    /\ UNCHANGED <<phase, settingsVars, sceneVars, frameCameras, callVars, maskVars>>

\* The loop condition fails: render() returns.
RenderReturn ==
    /\ rpc = "loop"
    /\ i >= Len(cascadeCameras)
    /\ rpc' = "idle"
    /\ UNCHANGED <<i, k, slice, boundMaterial, cpu, gpu, log>>
    /\ UNCHANGED <<phase, settingsVars, sceneVars, frameCameras, callVars, maskVars>>

\* One iteration of renderInstances' loop, lines 135-146.  mesh.draw() on an
\* entry without a mesh is a call on null: a TypeError leaves render().
RenderInstancesItem ==
    /\ rpc = "instances"
    /\ k <= Len(instancedObjects)
    /\ LET obj == instancedObjects[k]
           material == InstanceMaterial(obj.name)
           written == [cpu EXCEPT ![material].projectionMatrix = Camera,
                                  ![material].modelViewMatrix =
                                      MvMatrix(Camera, "instances", k)]
           calls == <<EvUse("instances", i, k, material),
                      EvWrite("instances", i, k, material, "MainBlock", "projectionMatrix"),
                      EvWrite("instances", i, k, material, "MainBlock", "modelViewMatrix"),
                      EvFlush("instances", i, k, material, "MainBlock")>>
       IN /\ boundMaterial' = material
          /\ cpu' = written
          /\ gpu' = UpdateUniformBlock(written, gpu, material, "MainBlock")
          /\ IF obj.mesh.present
             THEN /\ log' = log \o calls \o <<EvDraw("instances", i, k, material)>>
                  /\ k' = k + 1
                  /\ rpc' = rpc
             ELSE /\ log' = log \o calls \o <<EvThrow("instances", i, k)>>
                  /\ k' = k
                  /\ rpc' = "idle"
    /\ UNCHANGED <<i, slice>>
    /\ UNCHANGED <<phase, settingsVars, sceneVars, frameCameras, callVars, maskVars>>

\* renderInstances returns and render() calls renderAircraft, line 182.
RenderInstancesReturn ==
    /\ rpc = "instances"
    /\ k > Len(instancedObjects)
    /\ rpc' = "aircraft"
    /\ k' = 1
    /\ log' = Append(log, EvCall("aircraft", i))
    /\ UNCHANGED <<i, slice, boundMaterial, cpu, gpu>>
    /\ UNCHANGED <<phase, settingsVars, sceneVars, frameCameras, callVars, maskVars>>

\* One iteration of renderAircraft's loop, lines 152-166.
RenderAircraftItem ==
    /\ rpc = "aircraft"
    /\ k <= Len(instancedAircraft)
    /\ IF AircraftDrawable(instancedAircraft[k])
       THEN LET written == [cpu EXCEPT !["aircraft"].projectionMatrix = Camera,
                                       !["aircraft"].modelViewMatrix =
                                           MvMatrix(Camera, "aircraft", k)]
            IN /\ boundMaterial' = "aircraft"
               /\ cpu' = written
               /\ gpu' = UpdateUniformBlock(written, gpu, "aircraft", "MainBlock")
               /\ log' = log \o
                    <<EvUse("aircraft", i, k, "aircraft"),
                      EvWrite("aircraft", i, k, "aircraft", "MainBlock", "projectionMatrix"),
                      EvWrite("aircraft", i, k, "aircraft", "MainBlock", "modelViewMatrix"),
                      EvFlush("aircraft", i, k, "aircraft", "MainBlock"),
                      EvDraw("aircraft", i, k, "aircraft")>>
       ELSE UNCHANGED <<boundMaterial, cpu, gpu, log>>
    /\ k' = k + 1
    /\ UNCHANGED <<rpc, i, slice>>
    /\ UNCHANGED <<phase, settingsVars, sceneVars, frameCameras, callVars, maskVars>>

\* renderAircraft returns and render() calls renderBuildings, line 185.
RenderAircraftReturn ==
    /\ rpc = "aircraft"
    /\ k > Len(instancedAircraft)
    /\ rpc' = "buildingsHead"
    /\ k' = 1
    /\ log' = Append(log, EvCall("buildings", i))
    /\ UNCHANGED <<i, slice, boundMaterial, cpu, gpu>>
    /\ UNCHANGED <<phase, settingsVars, sceneVars, frameCameras, callVars, maskVars>>

\* renderBuildings up to its loop, lines 79-84.
RenderBuildingsHead ==
    /\ rpc = "buildingsHead"
    /\ LET written == [cpu EXCEPT !["building"].projectionMatrix = Camera]
       IN /\ boundMaterial' = "building"
          /\ cpu' = written
          /\ gpu' = UpdateUniformBlock(written, gpu, "building", "PerMaterial")
    /\ log' = log \o
         <<EvUse("buildings", i, 0, "building"),
           EvWrite("buildings", i, 0, "building", "PerMaterial", "projectionMatrix"),
           EvFlush("buildings", i, 0, "building", "PerMaterial")>>
    /\ rpc' = "buildings"
    /\ k' = 1
    /\ UNCHANGED <<i, slice>>
    /\ UNCHANGED <<phase, settingsVars, sceneVars, frameCameras, callVars, maskVars>>

\* One iteration of renderBuildings' loop, lines 86-97.  A tile without an
\* extruded mesh is skipped before its frustum is asked for.
RenderBuildingsItem ==
    /\ rpc = "buildings"
    /\ k <= Len(tiles)
    /\ LET mesh == tiles[k].extrudedMesh
           tested == IF mesh.present
                     THEN <<EvCull("buildings", i, k, InCameraFrustum(mesh, Camera))>>
                     ELSE <<>>
       IN IF TileMeshDrawable(mesh, Camera)
          THEN LET written == [cpu EXCEPT !["building"].modelViewMatrix =
                                              MvMatrix(Camera, "buildings", k)]
               IN /\ cpu' = written
                  /\ gpu' = UpdateUniformBlock(written, gpu, "building", "PerMesh")
                  /\ log' = log \o tested \o
                       <<EvWrite("buildings", i, k, "building", "PerMesh", "modelViewMatrix"),
                         EvFlush("buildings", i, k, "building", "PerMesh"),
                         EvDraw("buildings", i, k, boundMaterial)>>
          ELSE /\ log' = log \o tested
               /\ UNCHANGED <<cpu, gpu>>
    /\ k' = k + 1
    /\ UNCHANGED <<rpc, i, slice, boundMaterial>>
    /\ UNCHANGED <<phase, settingsVars, sceneVars, frameCameras, callVars, maskVars>>

\* renderBuildings returns and render() calls renderHuggingMeshes, line 186.
RenderBuildingsReturn ==
    /\ rpc = "buildings"
    /\ k > Len(tiles)
    /\ rpc' = "huggingHead"
    /\ k' = 1
    /\ log' = Append(log, EvCall("hugging", i))
    /\ UNCHANGED <<i, slice, boundMaterial, cpu, gpu>>
    /\ UNCHANGED <<phase, settingsVars, sceneVars, frameCameras, callVars, maskVars>>

\* renderHuggingMeshes up to its loop, lines 101-111.
RenderHuggingHead ==
    /\ rpc = "huggingHead"
    /\ LET written == [cpu EXCEPT !["hugging"].tRingHeight = "TerrainRingHeight",
                                  !["hugging"].projectionMatrix = Camera]
       IN /\ boundMaterial' = "hugging"
          /\ cpu' = written
          /\ gpu' = UpdateUniformBlock(written, gpu, "hugging", "PerMaterial")
    /\ log' = log \o
         <<EvWrite("hugging", i, 0, "hugging", "none", "tRingHeight"),
           EvUse("hugging", i, 0, "hugging"),
           EvWrite("hugging", i, 0, "hugging", "PerMaterial", "projectionMatrix"),
           EvFlush("hugging", i, 0, "hugging", "PerMaterial")>>
    /\ rpc' = "hugging"
    /\ k' = 1
    /\ UNCHANGED <<i, slice>>
    /\ UNCHANGED <<phase, settingsVars, sceneVars, frameCameras, callVars, maskVars>>

\* One iteration of renderHuggingMeshes' loop, lines 113-131.
RenderHuggingItem ==
    /\ rpc = "hugging"
    /\ k <= Len(tiles)
    /\ LET mesh == tiles[k].huggingMesh
           tested == IF mesh.present
                     THEN <<EvCull("hugging", i, k, InCameraFrustum(mesh, Camera))>>
                     ELSE <<>>
       IN IF TileMeshDrawable(mesh, Camera)
          THEN LET written == [cpu EXCEPT !["hugging"].modelViewMatrix =
                                              MvMatrix(Camera, "hugging", k),
                                          !["hugging"].ring = TileRing(k)]
               IN /\ cpu' = written
                  /\ gpu' = UpdateUniformBlock(written, gpu, "hugging", "PerMesh")
                  /\ log' = log \o tested \o
                       <<EvWrite("hugging", i, k, "hugging", "PerMesh", "modelViewMatrix"),
                         EvWrite("hugging", i, k, "hugging", "PerMesh", "terrainRingSize"),
                         EvWrite("hugging", i, k, "hugging", "PerMesh", "terrainRingOffset"),
                         EvWrite("hugging", i, k, "hugging", "PerMesh", "terrainLevelId"),
                         EvWrite("hugging", i, k, "hugging", "PerMesh", "segmentCount"),
                         EvFlush("hugging", i, k, "hugging", "PerMesh"),
                         EvDraw("hugging", i, k, boundMaterial)>>
          ELSE /\ log' = log \o tested
               /\ UNCHANGED <<cpu, gpu>>
    /\ k' = k + 1
    /\ UNCHANGED <<rpc, i, slice, boundMaterial>>
    /\ UNCHANGED <<phase, settingsVars, sceneVars, frameCameras, callVars, maskVars>>

\* renderHuggingMeshes returns: the loop's i++, line 173.
RenderHuggingReturn_Mut ==
    /\ rpc = "hugging"
    /\ k > Len(tiles)
    /\ rpc' = "loop"
    /\ i' = i
    /\ k' = 0
    /\ cascadeCameras' = Tail(cascadeCameras)
    /\ UNCHANGED <<slice, boundMaterial, cpu, gpu, log>>
    /\ UNCHANGED <<handlers, hpc, statusValue, csm, descriptor, hlog, runs>>
    /\ UNCHANGED <<phase, sceneVars, frameCameras, callVars, maskVars>>

RenderHuggingReturn ==
    /\ rpc = "hugging"
    /\ k > Len(tiles)
    /\ rpc' = "loop"
    /\ i' = i + 1
    /\ k' = 0
    /\ UNCHANGED <<slice, boundMaterial, cpu, gpu, log>>
    /\ UNCHANGED <<phase, settingsVars, sceneVars, frameCameras, callVars, maskVars>>

\* The sizes the pass manager calls setSize with.
ViewportSizes ==
    { [width |-> 0, height |-> 0],
      [width |-> 1000000, height |-> 1000000] }

\* The descriptor after setSize(width, height), lines 190-192: the body is
\* empty.
SetSizeEffect_Mut(d, width, height) == [d EXCEPT !.width = width, !.height = height]

SetSizeEffect(d, width, height) == d

\* The pass manager calls setSize between two frames, lines 190-192.
SetSize ==
    /\ phase = "ready"
    /\ hpc = "idle"
    /\ rpc = "idle"
    /\ \E size \in ViewportSizes :
          /\ descriptor' = SetSizeEffect(descriptor, size.width, size.height)
          /\ sizeArgs' = size
    /\ previous' = NoPrevious
    /\ UNCHANGED <<handlers, hpc, statusValue, csm, cascadeCameras, hlog, runs>>
    /\ UNCHANGED <<phase, sceneVars, frameVars, maskVars>>

----------------------------------------------------------------------------
(* WaterMask, src/unnamed/part_000 *)

\* The most WaterMask objects constructed.
MaxMasks == 2

\* The most updateMesh calls on one WaterMask.
MaxUpdates == 2

\* The vertices a WaterMask is constructed with.
VertexBuffers == { <<>>, <<0, 0, 1, 0, 1, 1>> }

\* mesh = null, line 7.  A mesh the renderer made is its position in created.
Null == 0

\* No isMeshReady call yet.
NoAnswer == [mask |-> 0, ready |-> FALSE, updates |-> 0]

\* new WaterMask(vertices), lines 7-13.
NewWaterMask ==
    /\ Len(masks) < MaxMasks
    /\ \E vertices \in VertexBuffers :
          masks' = Append(masks, [mesh |-> Null, verticesBuffer |-> vertices])
    /\ updates' = Append(updates, 0)
    /\ UNCHANGED <<created, answer>>
    /\ UNCHANGED <<phase, settingsVars, sceneVars, frameVars, callVars>>

\* return this.mesh !== null, line 16.
IsMeshReady(mask) == mask.mesh # Null

\* A caller asks isMeshReady(), lines 15-17.
CallIsMeshReady ==
    /\ \E m \in 1..Len(masks) :
          answer' = [mask |-> m, ready |-> IsMeshReady(masks[m]), updates |-> updates[m]]
    /\ UNCHANGED <<masks, updates, created>>
    /\ UNCHANGED <<phase, settingsVars, sceneVars, frameVars, callVars>>

\* if (this.mesh === null), line 20.
NeedsMesh_Mut(mask) == TRUE

NeedsMesh(mask) == mask.mesh = Null

\* The argument of renderer.createMesh, lines 21-32, and the mask that made
\* the call.
MeshDescription(m) ==
    [by |-> m,
     attributes |-> <<[name |-> "position", type |-> "Float32", format |-> "Float",
                       size |-> 2, normalized |-> FALSE,
                       data |-> masks[m].verticesBuffer]>>]

\* updateMesh(renderer), lines 19-34.
UpdateMesh ==
    /\ \E m \in 1..Len(masks) :
          /\ updates[m] < MaxUpdates
          /\ updates' = [updates EXCEPT ![m] = updates[m] + 1]
          /\ IF NeedsMesh(masks[m])
             THEN /\ created' = Append(created, MeshDescription(m))
                  /\ masks' = [masks EXCEPT ![m].mesh = Len(created) + 1]
             ELSE UNCHANGED <<masks, created>>
    /\ UNCHANGED answer
    /\ UNCHANGED <<phase, settingsVars, sceneVars, frameVars, callVars>>

----------------------------------------------------------------------------
(* The specification *)

\* Before the constructor runs: a CSM object and a ShadowMaps resource made
\* by the scene and the pass manager, a scene of at most MaxItems items, no
\* handler registered, materials not yet written to.
Init ==
    /\ phase = "constructing"
    /\ handlers = 0
    /\ hpc = "idle"
    /\ statusValue = "none"
    /\ csm \in PriorConfigs
    /\ cascadeCameras = UpdateCascades(csm)
    /\ descriptor \in PriorDescriptors
    /\ hlog = <<>>
    /\ runs = 0
    /\ \E nt, ni, na \in 0..MaxItems :
          /\ nt + ni + na <= MaxItems
          /\ tiles \in SeqsOf(Tiles, nt)
          /\ instancedObjects \in {reg \in SeqsOf(InstancedObjects, ni) : DistinctNames(reg)}
          /\ instancedAircraft \in SeqsOf(Aircraft, na)
    /\ rpc = "idle"
    /\ i = 0
    /\ k = 0
    /\ slice = 0
    /\ boundMaterial = "none"
    /\ cpu = [m \in Materials |-> NoUniforms]
    /\ gpu = [m \in Materials |-> NoUniforms]
    /\ log = <<>>
    /\ frameCameras = 0
    /\ sizeArgs = NoSize
    /\ previous = NoPrevious
    /\ masks = <<>>
    /\ updates = <<>>
    /\ created = <<>>
    /\ answer = NoAnswer

Next ==
    \/ Constructor
    \/ WriteCascades
    \/ WriteResolution
    \/ WriteFar
    \/ CallUpdateCascades
    \/ UpdateShadowMapDescriptor
    \/ SettingsChange
    \/ RenderCall
    \/ CascadeBegin
    \/ RenderReturn
    \/ RenderInstancesItem
    \/ RenderInstancesReturn
    \/ RenderAircraftItem
    \/ RenderAircraftReturn
    \/ RenderBuildingsHead
    \/ RenderBuildingsItem
    \/ RenderBuildingsReturn
    \/ RenderHuggingHead
    \/ RenderHuggingItem
    \/ RenderHuggingReturn
    \/ SetSize

Spec == Init /\ [][Next]_vars

\* The WaterMask objects on their own, beside a pass that is not yet
\* constructed and an empty scene.
MaskInit ==
    /\ Init
    /\ csm = [cascades |-> 1, resolution |-> 4096, far |-> 4000]
    /\ descriptor = [width |-> 1, height |-> 1, depth |-> 1]
    /\ tiles = <<>>
    /\ instancedObjects = <<>>
    /\ instancedAircraft = <<>>

MaskNext ==
    \/ NewWaterMask
    \/ CallIsMeshReady
    \/ UpdateMesh

MaskSpec == MaskInit /\ [][MaskNext]_vars

----------------------------------------------------------------------------
(* Properties of the settings handler *)

\* The handler has run to its end at least once and is not running.
Applied == hpc = "idle" /\ statusValue # "none"

\* The last frame was rendered with another cascade count than the CSM object
\* has now.
ReconfiguredAfterFrame == log # <<>> /\ frameCameras # csm.cascades

\* C1: once the handler has run with statusValue low, medium or high, the CSM
\* object holds (1, 2048, 3000), (3, 2048, 4000) or (3, 4096, 5000), whatever
\* it held before.
Thm_C1 ==
    Applied =>
        /\ statusValue = "low" =>
              csm = [cascades |-> 1, resolution |-> 2048, far |-> 3000]
        /\ statusValue = "medium" =>
              csm = [cascades |-> 3, resolution |-> 2048, far |-> 4000]
        /\ statusValue = "high" =>
              csm = [cascades |-> 3, resolution |-> 4096, far |-> 5000]

\* Medium has been applied over the low configuration, under which a frame
\* was rendered.
Wit_C1 ==
    /\ Applied
    /\ statusValue = "medium"
    /\ csm = [cascades |-> 3, resolution |-> 2048, far |-> 4000]
    /\ ReconfiguredAfterFrame

\* C2: once the pass is constructed, whenever no handler is running the
\* ShadowMaps descriptor is resolution x resolution x cascades of the CSM
\* object's current configuration.
Thm_C2 ==
    (phase = "ready" /\ hpc = "idle") =>
        /\ descriptor.width = csm.resolution
        /\ descriptor.height = csm.resolution
        /\ descriptor.depth = csm.cascades

\* A later application has raised the descriptor to 4096 x 4096 x 3 after a
\* frame was rendered with one cascade.
Wit_C2 ==
    /\ phase = "ready"
    /\ hpc = "idle"
    /\ descriptor = [width |-> 4096, height |-> 4096, depth |-> 3]
    /\ log # <<>>
    /\ frameCameras = 1

\* C3: every application writes the three fields, then rebuilds the cameras,
\* then resizes the descriptor, each once: the descriptor is never resized
\* before the cameras exist for the configuration it is resized to.
Thm_C3 ==
    LET order == <<"cascades", "resolution", "far", "updateCascades", "setSize">>
        resized == \E n \in 1..Len(hlog) : hlog[n] = "setSize"
    IN /\ Len(hlog) <= Len(order)
       /\ \A n \in 1..Len(hlog) : hlog[n] = order[n]
       /\ Applied => hlog = order
       /\ resized =>
             /\ Len(cascadeCameras) = csm.cascades
             /\ \A n \in 1..Len(cascadeCameras) :
                   /\ cascadeCameras[n].cascades = csm.cascades
                   /\ cascadeCameras[n].far = csm.far
             /\ descriptor.depth = Len(cascadeCameras)

\* A later application (a frame lies before it) has rebuilt the cameras and
\* is about to resize the descriptor, which still has the old depth.
Wit_C3 ==
    /\ hpc = "updateShadowMapDescriptor"
    /\ hlog = <<"cascades", "resolution", "far", "updateCascades">>
    /\ log # <<>>
    /\ descriptor.depth # Len(cascadeCameras)

\* C4: the handler is registered once and called once while the constructor
\* runs, before any render(); render() only ever sees a configuration, a
\* camera set and a descriptor that an application of a tier has produced.
Thm_C4 ==
    /\ phase = "constructing" => (rpc = "idle" /\ log = <<>>)
    /\ phase = "ready" => (handlers = 1 /\ runs = 1 /\ statusValue # "none")
    /\ rpc # "idle" =>
          /\ phase = "ready"
          /\ hpc = "idle"
          /\ csm \in { [cascades |-> 1, resolution |-> 2048, far |-> 3000],
                       [cascades |-> 3, resolution |-> 2048, far |-> 4000],
                       [cascades |-> 3, resolution |-> 4096, far |-> 5000] }
          /\ Len(cascadeCameras) = csm.cascades
          /\ descriptor.depth = csm.cascades
          /\ descriptor.width = csm.resolution
          /\ descriptor.height = csm.resolution

\* The first render() after construction, with no settings change in between:
\* the immediate call of the handler is the only application so far.
Wit_C4 ==
    /\ rpc = "loop"
    /\ i = 0
    /\ log = <<>>
    /\ boundMaterial = "none"
    /\ runs = 1
    /\ csm.cascades = 3

----------------------------------------------------------------------------
(* Properties of render() *)

\* The positions of the log that hold the call op of category cat with
\* cascade camera cam.
Events(op, cat, cam) ==
    { n \in 1..Len(log) : log[n].op = op /\ log[n].cat = cat /\ log[n].cam = cam }

\* The same for one item.
ItemEvents(op, cat, cam, idx) ==
    { n \in Events(op, cat, cam) : log[n].item = idx }

\* render() has been called and has been left, by return or by an exception,
\* no handler is running, and neither setSize nor a repeated handler call was
\* the last call.  The log only grows while render() runs and no other call
\* changes it, so what holds of every entry of every ended frame's log holds
\* of every log.
FrameEnded ==
    /\ rpc = "idle"
    /\ hpc = "idle"
    /\ log # <<>>
    /\ sizeArgs = NoSize
    /\ previous = NoPrevious

\* render() has been left by an exception.
FrameThrew == FrameEnded /\ log[Len(log)].op = "throw"

FrameCascades == 0..(frameCameras - 1)

\* The mesh that item idx of a category draws.
ItemMesh(cat, idx) ==
    IF cat = "buildings" THEN tiles[idx].extrudedMesh
    ELSE IF cat = "hugging" THEN tiles[idx].huggingMesh
    ELSE IF cat = "instances" THEN instancedObjects[idx].mesh
    ELSE instancedAircraft[idx].mesh

ItemCount(cat) ==
    IF cat \in {"buildings", "hugging"} THEN Len(tiles)
    ELSE IF cat = "instances" THEN Len(instancedObjects)
    ELSE Len(instancedAircraft)

\* The helper of category cat, called with camera cam, has finished the loop
\* iteration of item idx.
Passed(cat, cam, idx) ==
    /\ Events("call", cat, cam) # {}
    /\ ~ (i = cam /\ rpc = "buildingsHead" /\ cat = "buildings")
    /\ ~ (i = cam /\ rpc = "huggingHead" /\ cat = "hugging")
    /\ ~ (i = cam /\ rpc = cat /\ k <= idx)
    /\ ~ \E n \in Events("throw", cat, cam) : log[n].item <= idx

\* C5 (as claimed): in one render() call, instanced groups and aircraft are
\* processed for cascade index i exactly when i < 2; with one cascade the only
\* cascade processes all four categories.
Cex_C5 ==
    FrameEnded =>
        /\ \A cam \in FrameCascades : \A cat \in {"instances", "aircraft"} :
              (Events("call", cat, cam) # {}) <=> (cam < 2)
        /\ frameCameras = 1 =>
              \A cat \in {"instances", "aircraft", "buildings", "hugging"} :
                  Events("call", cat, 0) # {}

\* What remains of C5 and C6 in the frames that no exception leaves: every
\* cascade processes buildings and hugging meshes once, and instanced groups
\* and aircraft exactly below the threshold.
CompletedFrames ==
    (FrameEnded /\ ~ FrameThrew) =>
        \A cam \in FrameCascades :
            /\ \A cat \in {"buildings", "hugging"} :
                  Cardinality(Events("call", cat, cam)) = 1
            /\ \A cat \in {"instances", "aircraft"} :
                  Cardinality(Events("call", cat, cam)) = (IF cam < 2 THEN 1 ELSE 0)

\* C6 (as claimed): in one render() call, buildings and hugging meshes are
\* each processed exactly once with cascade camera i, for every i below the
\* number of cascade cameras.
Cex_C6 ==
    FrameEnded =>
        \A cam \in FrameCascades : \A cat \in {"buildings", "hugging"} :
            Cardinality(Events("call", cat, cam)) = 1

\* C7 (as claimed): in every category, an item whose frustum test against a
\* cascade's camera fails is not drawn in that cascade.
Cex_C7 ==
    \A n \in 1..Len(log) :
        log[n].op = "draw" => log[n].cam \in ItemMesh(log[n].cat, log[n].item).frustum

\* C7 (amended): a tile's extruded mesh and hugging mesh are drawn in a cascade
\* exactly when the mesh exists and intersects that cascade's camera, cascade
\* by cascade; instanced groups and aircraft are never tested against the
\* camera and are drawn in every cascade below 2 that reaches them, the group
\* when it has a mesh, the aircraft when it has a mesh with instances.
Thm_C7 ==
    FrameEnded =>
        /\ \A n \in 1..Len(log) :
              /\ (log[n].op = "draw" /\ log[n].cat \in {"buildings", "hugging"}) =>
                    /\ ItemMesh(log[n].cat, log[n].item).present
                    /\ log[n].cam \in ItemMesh(log[n].cat, log[n].item).frustum
              /\ log[n].op \in {"inFrustum", "outOfFrustum"} =>
                    log[n].cat \in {"buildings", "hugging"}
        /\ \A cat \in {"buildings", "hugging"} : \A idx \in 1..ItemCount(cat) :
              \A cam \in FrameCascades :
                 (/\ Passed(cat, cam, idx)
                  /\ ItemMesh(cat, idx).present
                  /\ cam \in ItemMesh(cat, idx).frustum)
                 => Cardinality(ItemEvents("draw", cat, cam, idx)) = 1
        /\ \A idx \in 1..ItemCount("instances") : \A cam \in FrameCascades :
              (Passed("instances", cam, idx) /\ ItemMesh("instances", idx).present)
              => Cardinality(ItemEvents("draw", "instances", cam, idx)) = 1
        /\ \A idx \in 1..ItemCount("aircraft") : \A cam \in FrameCascades :
              (/\ Passed("aircraft", cam, idx)
               /\ ItemMesh("aircraft", idx).present
               /\ ItemMesh("aircraft", idx).instanceCount > 0)
              => Cardinality(ItemEvents("draw", "aircraft", cam, idx)) = 1

\* A building that was culled in cascade 0 is drawn in cascade 1, and an
\* instanced group outside camera 0's frustum was drawn in cascade 0.
Wit_C7 ==
    /\ ItemEvents("outOfFrustum", "buildings", 0, 1) # {}
    /\ ItemEvents("draw", "buildings", 0, 1) = {}
    /\ ItemEvents("draw", "buildings", 1, 1) # {}
    /\ ItemEvents("draw", "instances", 0, 1) # {}
    /\ ~ (0 \in instancedObjects[1].mesh.frustum)

\* C8 (as claimed): in every category an item without a drawable is skipped
\* silently: it is not drawn, nothing is thrown, and the rest of the frame is
\* processed.
Cex_C8 ==
    /\ \A n \in 1..Len(log) :
          /\ log[n].op # "throw"
          /\ log[n].op = "draw" => ItemMesh(log[n].cat, log[n].item).present
    /\ FrameEnded =>
          \A cam \in FrameCascades : Events("call", "hugging", cam) # {}

\* C9: an aircraft without a mesh, or with a mesh of zero instances, causes
\* no useMaterial, no uniform write, no flush and no draw; when every aircraft
\* is such an item the aircraft material is never bound in the frame.
Thm_C9 ==
    FrameEnded =>
        /\ \A n \in 1..Len(log) :
              (log[n].cat = "aircraft" /\ log[n].op # "call") =>
                  /\ instancedAircraft[log[n].item].mesh.present
                  /\ instancedAircraft[log[n].item].mesh.instanceCount > 0
        /\ (\A a \in 1..Len(instancedAircraft) :
                \/ ~ instancedAircraft[a].mesh.present
                \/ instancedAircraft[a].mesh.instanceCount = 0)
           => \A n \in 1..Len(log) : log[n].mat # "aircraft"

\* A whole frame with an aircraft whose mesh has zero instances: renderAircraft
\* ran for cascades 0 and 1 and the aircraft material was never bound.
Wit_C9 ==
    /\ FrameEnded
    /\ ~ FrameThrew
    /\ Events("call", "aircraft", 0) # {}
    /\ Events("call", "aircraft", 1) # {}
    /\ \E a \in 1..Len(instancedAircraft) :
          /\ instancedAircraft[a].mesh.present
          /\ instancedAircraft[a].mesh.instanceCount = 0
    /\ \A n \in 1..Len(log) : log[n].mat # "aircraft"

\* C10: renderInstances binds the tree material for the entry named 'tree' and
\* the generic instance material for every other name, and that material is
\* the bound one when the entry's mesh.draw() is called; the entries are
\* visited in the order of the registry.
Thm_C10 ==
    FrameEnded =>
        /\ \A n \in 1..Len(log) :
              (log[n].cat = "instances" /\ log[n].op \in {"useMaterial", "draw"}) =>
                  /\ (log[n].mat = "tree") <=> (instancedObjects[log[n].item].name = "tree")
                  /\ (log[n].mat = "instance") <=> (instancedObjects[log[n].item].name # "tree")
        /\ \A n \in 1..Len(log) :
              (log[n].cat = "instances" /\ log[n].op \in {"draw", "throw"}) =>
                  \E m \in 1..(n - 1) :
                      /\ log[m].op = "useMaterial"
                      /\ log[m].item = log[n].item
                      /\ log[m].cat = "instances"
                      /\ \A j \in (m + 1)..(n - 1) : log[j].op # "useMaterial"
        /\ \A cam \in FrameCascades :
              \A p, q \in Events("useMaterial", "instances", cam) :
                  /\ p < q => log[p].item < log[q].item
                  /\ \A idx \in 1..(log[p].item - 1) :
                        \E r \in Events("useMaterial", "instances", cam) :
                            r < p /\ log[r].item = idx

\* The registry holds '' and then 'tree': in one cascade the first was drawn
\* with the instance material and then the second with the tree material.
Wit_C10 ==
    /\ Len(instancedObjects) = 2
    /\ instancedObjects[1].name = ""
    /\ instancedObjects[2].name = "tree"
    /\ \E p, q \in Events("draw", "instances", 1) :
          /\ p < q
          /\ log[p].item = 1 /\ log[p].mat = "instance"
          /\ log[q].item = 2 /\ log[q].mat = "tree"

----------------------------------------------------------------------------
(* Properties of setSize and of repeated settings *)

\* C11: every setSize(width, height), whatever its arguments, whatever the
\* state between two frames and however often it is called, leaves the
\* descriptor's width, height and depth, the cascade configuration and the
\* cascade cameras as they were.
Thm_C11 ==
    [][SetSize => UNCHANGED <<descriptor, csm, cascadeCameras>>]_vars

\* setSize(0, 0) was the last call, after a frame that was rendered with one
\* cascade and a settings change to three cascades of 4096 x 4096.
Wit_C11 ==
    /\ sizeArgs = [width |-> 0, height |-> 0]
    /\ descriptor = [width |-> 4096, height |-> 4096, depth |-> 3]
    /\ log # <<>>
    /\ frameCameras = 1

\* C12: a value that is none of low, medium and high is applied as high: the
\* configuration becomes (3, 4096, 5000), the cameras are rebuilt for it and
\* the descriptor is resized to it, and the handler returns as for any tier.
Thm_C12 ==
    (statusValue \notin {"none", "low", "medium", "high"}) =>
        /\ hpc \in {"idle", "cascades", "resolution", "far", "updateCascades",
                    "updateShadowMapDescriptor"}
        /\ Applied =>
              /\ csm = [cascades |-> 3, resolution |-> 4096, far |-> 5000]
              /\ Len(cascadeCameras) = 3
              /\ \A n \in 1..3 : cascadeCameras[n].far = 5000
              /\ descriptor = [width |-> 4096, height |-> 4096, depth |-> 3]
              /\ hlog = <<"cascades", "resolution", "far", "updateCascades", "setSize">>
              /\ phase = "ready"

\* 'ultra' has been applied over the low configuration, under which a frame
\* was rendered.
Wit_C12 ==
    /\ Applied
    /\ statusValue = "ultra"
    /\ frameCameras = 1
    /\ log # <<>>
    /\ Len(cascadeCameras) = 3

\* C13: an application of the value that the application before it had
\* leaves the configuration, the cameras and the descriptor that the first
\* one left.
Thm_C13 ==
    (Applied /\ previous # NoPrevious) =>
        /\ previous.statusValue = statusValue
        /\ csm = previous.csm
        /\ cascadeCameras = previous.cascadeCameras
        /\ descriptor = previous.descriptor

\* Medium has been applied twice in a row.
Wit_C13 ==
    /\ Applied
    /\ statusValue = "medium"
    /\ previous # NoPrevious
    /\ previous.statusValue = "medium"
    /\ descriptor = [width |-> 2048, height |-> 2048, depth |-> 3]

----------------------------------------------------------------------------
(* Properties of the renderer calls inside a cascade *)

\* The writes of the projection matrix that category cat made with camera cam.
ProjectionWrites(cat, cam) ==
    { n \in Events("write", cat, cam) : log[n].name = "projectionMatrix" }

\* The flushes of the block that holds the projection matrix.
ProjectionFlushes(cat, cam) ==
    { n \in Events("flush", cat, cam) :
        "projectionMatrix" \in BlockUniforms(log[n].mat, log[n].block) }

\* The helper of category cat, called with camera cam, has begun the loop
\* iteration of item idx in an ended frame.
Reached(cat, cam, idx) ==
    /\ Events("call", cat, cam) # {}
    /\ ~ \E n \in Events("throw", cat, cam) : log[n].item < idx

\* C14 (as claimed): every category processed in a cascade binds its material
\* once and writes and flushes its projection matrix once in that cascade,
\* however many items it has: never a second time while the frame runs, and
\* once when it has ended.  Frames that an exception leaves are left aside.
Cex_C14 ==
    (\A n \in 1..Len(log) : log[n].op # "throw") =>
        \A cam \in FrameCascades :
            \A cat \in {"instances", "aircraft", "buildings", "hugging"} :
                /\ Cardinality(Events("useMaterial", cat, cam)) <= 1
                /\ Cardinality(ProjectionWrites(cat, cam)) <= 1
                /\ Cardinality(ProjectionFlushes(cat, cam)) <= 1
                /\ (FrameEnded /\ Events("call", cat, cam) # {}) =>
                      /\ Cardinality(Events("useMaterial", cat, cam)) = 1
                      /\ Cardinality(ProjectionWrites(cat, cam)) = 1
                      /\ Cardinality(ProjectionFlushes(cat, cam)) = 1

\* C14 (amended): buildings and hugging meshes bind their material once and
\* write and flush the projection matrix once in every cascade, whatever the
\* number of tiles; instanced groups do all three once for every registry
\* entry their loop reaches, and aircraft once for every aircraft that has a
\* mesh with instances.
Thm_C14 ==
    FrameEnded =>
        \A cam \in FrameCascades :
            /\ \A cat \in {"buildings", "hugging"} :
                  Events("call", cat, cam) # {} =>
                      /\ Cardinality(Events("useMaterial", cat, cam)) = 1
                      /\ Cardinality(ProjectionWrites(cat, cam)) = 1
                      /\ Cardinality(ProjectionFlushes(cat, cam)) = 1
            /\ \A cat \in {"instances", "aircraft"} :
                  /\ \A n \in Events("useMaterial", cat, cam) \cup ProjectionWrites(cat, cam)
                                \cup ProjectionFlushes(cat, cam) :
                        log[n].item \in 1..ItemCount(cat)
                  /\ \A idx \in 1..ItemCount(cat) :
                        LET times ==
                              IF cat = "instances"
                              THEN IF Reached(cat, cam, idx) THEN 1 ELSE 0
                              ELSE IF /\ Reached(cat, cam, idx)
                                      /\ instancedAircraft[idx].mesh.present
                                      /\ instancedAircraft[idx].mesh.instanceCount > 0
                                   THEN 1 ELSE 0
                        IN /\ Cardinality(ItemEvents("useMaterial", cat, cam, idx)) = times
                           /\ Cardinality({n \in ProjectionWrites(cat, cam) :
                                              log[n].item = idx}) = times
                           /\ Cardinality({n \in ProjectionFlushes(cat, cam) :
                                              log[n].item = idx}) = times

\* A frame with two instanced groups: in cascade 0 a material was bound and
\* the projection matrix written twice for them, and once for the buildings.
Wit_C14 ==
    /\ FrameEnded
    /\ ~ FrameThrew
    /\ Cardinality(Events("useMaterial", "instances", 0)) = 2
    /\ Cardinality(ProjectionWrites("instances", 0)) = 2
    /\ Cardinality(Events("useMaterial", "buildings", 0)) = 1

\* render() is running and the last renderer call was a draw: nothing has
\* been bound, written or flushed since.
JustDrew == rpc # "idle" /\ log # <<>> /\ log[Len(log)].op = "draw"

\* C15: at every draw the bound material is the one of the drawn item's
\* category (of its name, for an instanced group); what the GPU holds for
\* that material is the projection matrix of this cascade's camera, the
\* model-view matrix of this item and camera and, for a hugging mesh, this
\* tile's ring parameters; and no block uniform of the material has a written
\* value that differs from the flushed one.
Thm_C15 ==
    JustDrew =>
        LET e == log[Len(log)]
            camera == cascadeCameras[e.cam + 1]
            material ==
                IF e.cat = "buildings" THEN "building"
                ELSE IF e.cat = "hugging" THEN "hugging"
                ELSE IF e.cat = "aircraft" THEN "aircraft"
                ELSE IF instancedObjects[e.item].name = "tree" THEN "tree"
                ELSE "instance"
        IN /\ boundMaterial = material
           /\ e.mat = material
           /\ camera.index = e.cam
           /\ gpu[material].projectionMatrix = camera
           /\ gpu[material].modelViewMatrix =
                 [camera |-> camera, item |-> [cat |-> e.cat, idx |-> e.item]]
           /\ e.cat = "hugging" => gpu[material].ring = TileRing(e.item)
           /\ \A u \in {"projectionMatrix", "modelViewMatrix", "ring"} :
                 cpu[material][u] = gpu[material][u]

\* The second tile's hugging mesh has just been drawn in cascade 1, after the
\* first tile's in the same cascade and after cascade 0 used the material.
Wit_C15 ==
    /\ JustDrew
    /\ log[Len(log)].cat = "hugging"
    /\ log[Len(log)].cam = 1
    /\ log[Len(log)].item = 2
    /\ ItemEvents("draw", "hugging", 1, 1) # {}
    /\ Events("useMaterial", "hugging", 0) # {}

\* C16: the slice is set to i right before the render pass of cascade i is
\* begun, it is i while the helpers of cascade i run, and every draw made with
\* camera i comes after that pass was begun and while the slice is i.
Thm_C16 ==
    /\ rpc \notin {"idle", "loop"} => slice = i
    /\ JustDrew => slice = log[Len(log)].cam
    /\ FrameEnded =>
          \A n \in 1..Len(log) :
              /\ log[n].op = "beginRenderPass" =>
                    /\ n > 1
                    /\ log[n - 1].op = "slice"
                    /\ log[n - 1].cam = log[n].cam
              /\ log[n].op = "draw" =>
                    \E b \in 2..(n - 1) :
                        /\ log[b].op = "beginRenderPass"
                        /\ log[b].cam = log[n].cam
                        /\ log[b - 1].op = "slice"
                        /\ log[b - 1].cam = log[n].cam
                        /\ \A j \in (b + 1)..(n - 1) :
                              log[j].op \notin {"slice", "beginRenderPass"}

\* A mesh has just been drawn with camera 2 into slice 2, after another was
\* drawn with camera 0 in the same frame.
Wit_C16 ==
    /\ JustDrew
    /\ log[Len(log)].cam = 2
    /\ slice = 2
    /\ \E n \in 1..Len(log) : log[n].op = "draw" /\ log[n].cam = 0

IsBeginRenderPass(e) == e.op = "beginRenderPass"

\* The beginRenderPass calls of the frame, in order.
PassesBegun == SelectSeq(log, IsBeginRenderPass)

\* Every renderer call made for cascade cam lies after the begin of the pass
\* of cam and before the begin of any later pass.
PassesInOrder ==
    \A n \in 1..Len(log) : \A b \in 1..Len(log) :
        (log[b].op = "beginRenderPass" /\ log[n].cat # "none") =>
            (b < n <=> log[b].cam <= log[n].cam)

\* C17 (as claimed): one render() begins one pass for each cascade index, in
\* the order 0, 1, ..., cascadeCameras.length - 1, none twice; all that is
\* rendered into slice i is rendered before the pass of slice i+1 begins; and
\* with no cascade camera nothing is begun or drawn.
Cex_C17 ==
    /\ frameCameras = 0 => log = <<>>
    /\ FrameEnded =>
          /\ Len(PassesBegun) = frameCameras
          /\ \A n \in 1..Len(PassesBegun) : PassesBegun[n].cam = n - 1
          /\ PassesInOrder

\* What remains of C17: the passes begun are those of 0, 1, ... in this order
\* without a gap or a repetition, all of them in a frame that no exception
\* leaves, and each pass's renderer calls lie before the next pass begins.
PassesOfFrames ==
    FrameEnded =>
        /\ Len(PassesBegun) <= frameCameras
        /\ ~ FrameThrew => Len(PassesBegun) = frameCameras
        /\ \A n \in 1..Len(PassesBegun) : PassesBegun[n].cam = n - 1
        /\ PassesInOrder

----------------------------------------------------------------------------
(* Properties of render() as a whole *)

\* C18: handlers and render() never overlap, and while render() runs the
\* descriptor's depth is the number of cascade cameras, which is the number
\* the frame began with; every slice it selects is at least 0 and below the
\* depth.
Thm_C18 ==
    /\ ~ (hpc # "idle" /\ rpc # "idle")
    /\ rpc # "idle" =>
          /\ descriptor.depth = Len(cascadeCameras)
          /\ frameCameras = Len(cascadeCameras)
          /\ rpc # "loop" => (0 <= slice /\ slice < descriptor.depth)

\* render() is in cascade 1 of a frame after a change from medium to high:
\* the building material still holds the model-view matrix of a medium camera.
Wit_C18 ==
    /\ rpc = "instances"
    /\ slice = 1
    /\ csm.far = 5000
    /\ descriptor.depth = 3
    /\ gpu["building"].modelViewMatrix.camera.far = 4000

\* C19: no step of render(), from its call to its return or to the exception
\* that leaves it, changes the cascade configuration, the cascade cameras,
\* the descriptor, the tiles, the instanced-object registry, the aircraft
\* list or the registered handler; what it changes is the slice, the bound
\* material and the materials' uniform values.
Thm_C19 ==
    [][(rpc # "idle" \/ rpc' # "idle") =>
          UNCHANGED <<csm, cascadeCameras, descriptor, tiles, instancedObjects,
                      instancedAircraft, handlers, statusValue>>]_vars

\* A frame of three cascades has ended by return: it left slice 2 selected,
\* the hugging material bound and uniform values in the materials.
Wit_C19 ==
    /\ FrameEnded
    /\ ~ FrameThrew
    /\ frameCameras = 3
    /\ slice = 2
    /\ boundMaterial = "hugging"
    /\ gpu["hugging"].projectionMatrix = cascadeCameras[3]
    /\ \E n \in 1..Len(log) : log[n].op = "draw"

----------------------------------------------------------------------------
(* Properties of WaterMask *)

\* The createMesh calls that mask m made.
CreatedBy(m) == { h \in 1..Len(created) : created[h].by = m }

\* C20: isMeshReady() is false as long as updateMesh() has not been called on
\* the mask and true from the first call on; the mask makes at most one
\* createMesh call however often updateMesh() is called, its mesh is the one
\* that call returned, and every isMeshReady() call returned accordingly.
Thm_C20 ==
    /\ \A m \in 1..Len(masks) :
          /\ IsMeshReady(masks[m]) <=> updates[m] > 0
          /\ Cardinality(CreatedBy(m)) = (IF updates[m] > 0 THEN 1 ELSE 0)
          /\ masks[m].mesh # Null =>
                /\ CreatedBy(m) = {masks[m].mesh}
                /\ created[masks[m].mesh].attributes[1].data = masks[m].verticesBuffer
    /\ answer # NoAnswer => (answer.ready <=> answer.updates > 0)

\* updateMesh() was called twice on the mask constructed first, after the
\* second mask had got its mesh: the first mask's mesh is the renderer's
\* second, and isMeshReady() has returned true for it.
Wit_C20 ==
    /\ Len(masks) = 2
    /\ updates[1] = 2
    /\ updates[2] = 1
    /\ masks[1].mesh = 2
    /\ masks[2].mesh = 1
    /\ Len(created) = 2
    /\ answer = [mask |-> 1, ready |-> TRUE, updates |-> 2]

====
